---- MODULE Spec2Model ----
(***************************************************************************)
(* Workflow templates kept in two stores: a relational database (tables    *)
(* workflow_templates and workflow_template_versions) and the cluster's    *)
(* WorkflowTemplate objects.  The model follows pkg/workflow_template.go   *)
(* statement by statement: every database statement and every cluster call *)
(* is one step of the calling request, and each of them may fail.          *)
(***************************************************************************)
EXTENDS Integers, Sequences, FiniteSets, TLC

\* ---------------------------------------------------------------- bounds
\* number of Create / Append / Archive requests started in one behaviour
MaxCalls == 3
\* time.Now().Unix() at the start, and the last second the clock reaches
StartClock == 9
MaxClock == 10

Procs == {"p1", "p2"}
\* the namespaces callers name; templates are created in the first of them
Namespaces == {"ns1", "ns2"}
CreateNamespaces == {"ns1"}
Manifests == {"M1", "M2"}
\* template names given by callers, as sequences of characters
Names == { <<"T", "1">>, <<"t", " ", "_", "1">> }

\* ------------------------------------------------------- strings, labels
Upper == {"T"}
Lower == {"t", "v", "l", "a", "e", "s"}
DigitChars == <<"0", "1", "2", "3", "4", "5", "6", "7", "8", "9">>
Digits == {DigitChars[i] : i \in 1..10}

\* strings.ToLower on one character
ToLower(c) == IF c = "T" THEN "t" ELSE c

\* the complement of the class [^a-zA-Z0-9-]
IsNameChar(c) == c \in Upper \cup Lower \cup Digits \cup {"-"}

RECURSIVE DropRun(_)
\* the rest of s after a leading run of characters outside the class
DropRun(s) ==
    IF s = <<>> \/ IsNameChar(Head(s)) THEN s ELSE DropRun(Tail(s))

RECURSIVE ReplaceRuns(_)
\* re.ReplaceAllString(name, "-") for the expression [^a-zA-Z0-9-]{1,}
ReplaceRuns(s) ==
    IF s = <<>> THEN <<>>
    ELSE IF IsNameChar(Head(s)) THEN <<Head(s)>> \o ReplaceRuns(Tail(s))
    ELSE <<"-">> \o ReplaceRuns(DropRun(Tail(s)))

\* strings.ToLower(re.ReplaceAllString(workflowTemplate.Name, "-"))
Slug(name) ==
    LET r == ReplaceRuns(name) IN [i \in 1..Len(r) |-> ToLower(r[i])]

RECURSIVE FormatInt(_)
\* fmt.Sprintf("%v", version) of a non-negative int64
FormatInt(n) ==
    IF n < 10 THEN <<DigitChars[n + 1]>>
    ELSE FormatInt(n \div 10) \o <<DigitChars[(n % 10) + 1]>>

DigitValue(c) == CHOOSE d \in 0..9 : DigitChars[d + 1] = c

RECURSIVE ParseDigits(_, _)
ParseDigits(s, acc) ==
    IF s = <<>> THEN acc
    ELSE ParseDigits(Tail(s), acc * 10 + DigitValue(Head(s)))

\* strconv.ParseInt(s, 10, 64): an error for the empty string and for any
\* character that is no digit
ParseInt(s) ==
    IF s = <<>> \/ \E i \in 1..Len(s) : s[i] \notin Digits
    THEN [ok |-> FALSE, val |-> 0]
    ELSE [ok |-> TRUE, val |-> ParseDigits(s, 0)]

\* the version argument "latest" of getArgoWorkflowTemplate
LatestStr == <<"l", "a", "t", "e", "s", "t">>

\* the cluster object built for a template and a version: its name and labels
\* (label.VersionLatest is modelled by the flag latest: present or absent)
createArgoWorkflowTemplate(name, uid, version) ==
    [name    |-> Slug(name) \o <<"-", "v">> \o FormatInt(version),
     slug    |-> Slug(name),
     uid     |-> uid,
     version |-> FormatInt(version),
     latest  |-> TRUE]

\* ------------------------------------------------------------------ state
VARIABLES
    templates,  \* committed rows of workflow_templates
    versions,   \* committed rows of workflow_template_versions
    cluster,    \* WorkflowTemplate objects of the cluster store
    now,        \* time.Now().Unix()
    ncalls,     \* writing requests started so far
    loc,        \* per request: program position, locals, open transaction,
                \* the store calls made so far and the stores at its start
    ret,        \* what the call that finished last returned
    leaked      \* history: the objects whose Create failed to commit and
                \* then failed to delete them

vars == <<templates, versions, cluster, now, ncalls, loc, ret, leaked>>

NoObj == [name |-> <<>>, slug |-> <<>>, uid |-> 0, version |-> <<>>,
          latest |-> FALSE, namespace |-> "", rv |-> 0]

NoStores == [templates |-> {}, versions |-> {}, cluster |-> {}]

Stores == [templates |-> templates, versions |-> versions, cluster |-> cluster]

IdleLoc ==
    [pc |-> "idle", op |-> "none", namespace |-> "", uid |-> 0, name |-> <<>>,
     manifest |-> "", versionUnix |-> 0, ID |-> 0,
     txT |-> {}, txV |-> {}, txFlip |-> {}, scan |-> {},
     latest |-> NoObj, argoWft |-> NoObj, retry |-> FALSE,
     log |-> <<>>, pre |-> NoStores]

NoRet ==
    [op |-> "none", status |-> "none", kind |-> "", cause |-> "",
     namespace |-> "", uid |-> 0, name |-> <<>>, ID |-> 0, asked |-> 0,
     version |-> 0, manifest |-> "", list |-> {}, faults |-> <<>>,
     retry |-> FALSE, log |-> <<>>, pre |-> NoStores]

Init ==
    /\ templates = {}
    /\ versions = {}
    /\ cluster = {}
    /\ now = StartClock
    /\ ncalls = 0
    /\ loc = [p \in Procs |-> IdleLoc]
    /\ ret = NoRet
    /\ leaked = {}

\* the clock never goes backwards; two reads may see the same second
Tick ==
    /\ now < MaxClock
    /\ now' = now + 1
    /\ UNCHANGED <<templates, versions, cluster, ncalls, loc, ret, leaked>>

\* ---------------------------------------------------------------- helpers
\* the locals after one more store call, which succeeded or failed
Called(l, call, ok) == [l EXCEPT !.log = Append(@, <<call, ok>>)]

\* the store calls a finished request made, with their outcomes
Calls(r) == {r.log[i] : i \in DOMAIN r.log}

\* the request goes on with locals l
Continue(p, l) ==
    /\ loc' = [loc EXCEPT ![p] = l]
    /\ UNCHANGED ret

\* the request takes its first step with locals l; what the call before it
\* returned is no longer looked at
Start(p, l) ==
    /\ loc' = [loc EXCEPT ![p] = l]
    /\ ret' = NoRet

\* the call returns r: locals and the open transaction are dropped (the
\* deferred tx.Rollback() discards every uncommitted statement)
Return(p, r) ==
    /\ ret' = r
    /\ loc' = [loc EXCEPT ![p] = IdleLoc]

\* what a call with locals l hands back
Result(l, status, kind, cause) ==
    [NoRet EXCEPT !.op = l.op, !.status = status, !.kind = kind, !.cause = cause,
                  !.namespace = l.namespace, !.uid = l.uid, !.name = l.name,
                  !.ID = l.ID, !.manifest = l.manifest, !.retry = l.retry,
                  !.log = l.log, !.pre = l.pre]

\* ids: the uid GenerateUID makes and the ids the tables hand out are new,
\* which is all the code relies on; the model takes the least number that no
\* row, object or open request carries
LeastUnused(used) == CHOOSE n \in 1..(Cardinality(used) + 1) :
                        n \notin used /\ \A m \in 1..(n - 1) : m \in used

FreshUid == LeastUnused({t.uid : t \in templates} \cup {o.uid : o \in cluster}
                        \cup {loc[q].uid : q \in Procs})

FreshTid == LeastUnused({t.id : t \in templates} \cup {loc[q].ID : q \in Procs})

FreshVid == LeastUnused({v.id : v \in versions}
                        \cup UNION {{v.id : v \in loc[q].txV} : q \in Procs})

\* what the reads return
ReadOps == {"Get", "List"}

\* a writing request begins.  A read changes no store, and Start forgets what
\* the call before returned: the writes that could follow a read are the
\* writes that follow from the same stores without it, so the model ends a
\* behaviour at a read.
Begin(p) ==
    /\ loc[p].pc = "idle"
    /\ ret.op \notin ReadOps
    /\ ncalls < MaxCalls
    /\ ncalls' = ncalls + 1

\* the locals of a request that begins: its arguments, and the stores as they are
Args(op, ns, uid, name, manifest) ==
    [IdleLoc EXCEPT !.op = op, !.namespace = ns, !.uid = uid, !.name = name,
                    !.manifest = manifest, !.pre = Stores]

\* WorkflowTemplates(namespace).Create: the name must be free in the namespace
NameFree(ns, name) == \A o \in cluster : ~(o.namespace = ns /\ o.name = name)

ClusterCreated(ns, o) ==
    cluster \cup {[name |-> o.name, slug |-> o.slug, uid |-> o.uid,
                   version |-> o.version, latest |-> o.latest,
                   namespace |-> ns, rv |-> 1]}

\* a Delete that removes nothing
ClusterDeletedNothing(ns, name) == cluster

\* WorkflowTemplates(namespace).Delete(name)
ClusterDeleted(ns, name) ==
    {o \in cluster : ~(o.namespace = ns /\ o.name = name)}

\* the relational tables after tx.Commit() of the transaction held in l:
\* the inserted rows become visible and the rows the UPDATE reached lose
\* is_latest
TemplatesAfterCommit(l) == templates \cup l.txT

VersionsAfterCommit(l) ==
    {IF v.id \in l.txFlip THEN [v EXCEPT !.is_latest = FALSE] ELSE v :
        v \in versions} \cup l.txV

\* the row both operations insert into workflow_template_versions
NewVersionRow(id, tid, version, manifest) ==
    [id |-> id, workflow_template_id |-> tid, version |-> version,
     is_latest |-> TRUE, manifest |-> manifest]

\* ----------------------------------------------------------------- Create
\* a failure inside createWorkflowTemplate reaches the caller wrapped by
\* util.NewUserErrorWrap(err, "Workflow template")
CreateErr(l, cause) == Result(l, "err", "UserErrorWrap", cause)

\* CreateWorkflowTemplate: WrapSpec and ValidateWorkflowExecution pass or fail
CreateWorkflowTemplate(p, ns, name, manifest, valid) ==
    /\ Begin(p)
    /\ LET l == Args("Create", ns, 0, name, manifest)
       IN IF valid THEN Start(p, [l EXCEPT !.pc = "c_uid"])
          ELSE Return(p, Result(l, "err", "InvalidArgument", "validate"))
    /\ UNCHANGED <<templates, versions, cluster, now, leaked>>

\* workflowTemplate.GenerateUID(): a new identity for the template
GenerateUID(p, ok) ==
    /\ loc[p].pc = "c_uid"
    /\ IF ok THEN Continue(p, [loc[p] EXCEPT !.pc = "c_begin", !.uid = FreshUid])
       ELSE Return(p, CreateErr(loc[p], "GenerateUID"))
    /\ UNCHANGED <<templates, versions, cluster, now, leaked, ncalls>>

\* tx, err := c.DB.Begin(); versionUnix := time.Now().Unix()
CreateBegin(p, ok) ==
    /\ loc[p].pc = "c_begin"
    /\ LET l == Called(loc[p], "db.Begin", ok)
       IN IF ok THEN Continue(p, [l EXCEPT !.pc = "c_insert_t", !.versionUnix = now])
          ELSE Return(p, CreateErr(l, "db.Begin"))
    /\ UNCHANGED <<templates, versions, cluster, now, leaked, ncalls>>

\* INSERT INTO workflow_templates ... RETURNING id, run with tx
CreateInsertTemplate(p, ok) ==
    /\ loc[p].pc = "c_insert_t"
    /\ LET l == Called(loc[p], "db.InsertTemplate", ok)
       IN IF ok
          THEN Continue(p, [l EXCEPT !.pc = "c_insert_v", !.ID = FreshTid,
                              !.txT = {[id |-> FreshTid, uid |-> l.uid,
                                        name |-> l.name, namespace |-> l.namespace,
                                        is_archived |-> FALSE]}])
          ELSE Return(p, CreateErr(l, "db.InsertTemplate"))
    /\ UNCHANGED <<templates, versions, cluster, now, leaked, ncalls>>

\* where the INSERT of the version row goes: RunWith(tx) keeps it in the
\* open transaction, invisible to every other reader until the commit
InsertVersionAutocommit(p, l, row) ==
    /\ versions' = versions \cup {row}
    /\ Continue(p, [l EXCEPT !.pc = "c_argo_create"])

InsertVersionRunWithTx(p, l, row) ==
    /\ Continue(p, [l EXCEPT !.pc = "c_argo_create", !.txV = {row}])
    /\ UNCHANGED versions

\* INSERT INTO workflow_template_versions ..., is_latest true, run with tx
CreateInsertVersion(p, ok) ==
    /\ loc[p].pc = "c_insert_v"
    /\ LET l == Called(loc[p], "db.InsertVersion", ok)
       IN IF ok
          THEN InsertVersionRunWithTx(p, l,
                  NewVersionRow(FreshVid, l.ID, l.versionUnix, l.manifest))
          ELSE /\ Return(p, CreateErr(l, "db.InsertVersion"))
               /\ UNCHANGED versions
    /\ UNCHANGED <<templates, cluster, now, leaked, ncalls>>

\* createArgoWorkflowTemplate, then WorkflowTemplates(namespace).Create, made
\* while the transaction is still open
CreateArgoCreate(p, ok) ==
    /\ loc[p].pc = "c_argo_create"
    /\ LET o == createArgoWorkflowTemplate(loc[p].name, loc[p].uid,
                                          loc[p].versionUnix)
           created == ok /\ NameFree(loc[p].namespace, o.name)
           l == Called(loc[p], "argo.Create", created)
       IN IF created
          THEN /\ cluster' = ClusterCreated(l.namespace, o)
               /\ Continue(p, [l EXCEPT !.pc = "c_commit", !.argoWft.name = o.name])
          ELSE /\ Return(p, CreateErr(l, "argo.Create"))
               /\ UNCHANGED cluster
    /\ UNCHANGED <<templates, versions, now, leaked, ncalls>>

\* the version the successful Create hands back: workflowTemplate.Version
CreatedVersionClock(l) == now

CreatedVersion(l) == l.versionUnix

\* tx.Commit(); on success the template is returned with its version
CreateCommit(p, ok) ==
    /\ loc[p].pc = "c_commit"
    /\ LET l == Called(loc[p], "db.Commit", ok)
       IN IF ok
          THEN /\ templates' = TemplatesAfterCommit(l)
               /\ versions' = VersionsAfterCommit(l)
               /\ Return(p, [Result(l, "ok", "", "") EXCEPT
                                !.version = CreatedVersion(l)])
          ELSE /\ Continue(p, [l EXCEPT !.pc = "c_delete"])
               /\ UNCHANGED <<templates, versions>>
    /\ UNCHANGED <<cluster, now, leaked, ncalls>>

\* the error createWorkflowTemplate returns after a failed commit, given the
\* outcome of the compensating delete
DeleteErrorIfAny(deleted) == IF deleted THEN "db.Commit" ELSE "argo.Delete"

CommitError(deleted) == "db.Commit"

\* the commit failed: WorkflowTemplates(namespace).Delete(argoWft.Name); a
\* failure of the delete is logged, the commit error is returned
CreateDelete(p, ok) ==
    /\ loc[p].pc = "c_delete"
    /\ LET l == Called(loc[p], "argo.Delete", ok)
       IN /\ cluster' = IF ok THEN ClusterDeleted(l.namespace, l.argoWft.name)
                              ELSE cluster
          /\ leaked' = IF ok THEN leaked
                        ELSE leaked \cup {o \in cluster :
                                            /\ o.namespace = l.namespace
                                            /\ o.name = l.argoWft.name}
          /\ Return(p, CreateErr(l, CommitError(ok)))
    /\ UNCHANGED <<templates, versions, now, ncalls>>

\* ----------------------------------------------------------------- Append
\* the label selector of getArgoWorkflowTemplate: the identity, and either
\* the latest marker or the version label
Selected(ns, uid, version) ==
    {o \in cluster :
        /\ o.namespace = ns
        /\ o.uid = uid
        /\ IF version = LatestStr THEN o.latest ELSE o.version = version}

\* getArgoWorkflowTemplate: exactly one match, or an error
getArgoWorkflowTemplate(ns, uid, version, listOk) ==
    LET m == Selected(ns, uid, version)
    IN IF ~listOk THEN [err |-> "argo.List", obj |-> NoObj]
       ELSE IF Cardinality(m) = 0 THEN [err |-> "not found", obj |-> NoObj]
       ELSE IF Cardinality(m) > 1 THEN [err |-> "not unique result", obj |-> NoObj]
       ELSE [err |-> "", obj |-> CHOOSE o \in m : TRUE]

\* CreateWorkflowTemplateVersion returns the errors of the stores as they are
AppendErr(l, cause) == Result(l, "err", "raw", cause)

\* the call that returned r was an Append that committed its transaction and
\* failed afterwards, at one of its cluster steps
FailedAfterCommit(r) ==
    /\ r.op = "Append"
    /\ r.status = "err"
    /\ <<"db.Commit", TRUE>> \in Calls(r)

\* CreateWorkflowTemplateVersion: validation, then versionUnix := time.Now().Unix().
\* The request is a retry when the call before it was an Append on the same
\* identity that failed after its commit.
CreateWorkflowTemplateVersion(p, ns, uid, name, manifest, valid) ==
    /\ Begin(p)
    /\ LET l == [Args("Append", ns, uid, name, manifest) EXCEPT
                    !.retry = /\ FailedAfterCommit(ret)
                              /\ ret.namespace = ns
                              /\ ret.uid = uid]
       IN IF valid THEN Start(p, [l EXCEPT !.pc = "a_begin", !.versionUnix = now])
          ELSE Return(p, Result(l, "err", "InvalidArgument", "validate"))
    /\ UNCHANGED <<templates, versions, cluster, now, leaked>>

\* tx, err := c.DB.Begin()
AppendBegin(p, ok) ==
    /\ loc[p].pc = "a_begin"
    /\ LET l == Called(loc[p], "db.Begin", ok)
       IN IF ok THEN Continue(p, [l EXCEPT !.pc = "a_lookup"])
          ELSE Return(p, AppendErr(l, "db.Begin"))
    /\ UNCHANGED <<templates, versions, cluster, now, leaked, ncalls>>

\* c.DB.Get of the template row by namespace and uid, outside the transaction
AppendLookup(p, ok) ==
    /\ loc[p].pc = "a_lookup"
    /\ LET rows == {t \in templates : t.namespace = loc[p].namespace
                                      /\ t.uid = loc[p].uid}
           l == Called(loc[p], "db.GetTemplate", ok /\ rows # {})
       IN IF ~ok THEN Return(p, AppendErr(l, "db.GetTemplate"))
          ELSE IF rows = {} THEN Return(p, AppendErr(l, "sql.ErrNoRows"))
          ELSE \E t \in rows : Continue(p, [l EXCEPT !.pc = "a_update", !.ID = t.id])
    /\ UNCHANGED <<templates, versions, cluster, now, leaked, ncalls>>

\* the rows the UPDATE ... SET is_latest = false WHERE workflow_template_id = ID
\* reaches: those visible when the statement starts
UpdateTargets(tid) == {v.id : v \in {w \in versions : w.workflow_template_id = tid}}

\* the UPDATE starts: it sees the committed rows of the template
AppendUpdateScan(p, ok) ==
    /\ loc[p].pc = "a_update"
    /\ LET l == Called(loc[p], "db.UpdateLatest", ok)
       IN IF ok THEN Continue(p, [l EXCEPT !.pc = "a_update_wait",
                                           !.scan = UpdateTargets(l.ID)])
          ELSE Return(p, AppendErr(l, "db.UpdateLatest"))
    /\ UNCHANGED <<templates, versions, cluster, now, leaked, ncalls>>

\* the UPDATE writes its rows once no other open transaction holds one of
\* them (row locks); it keeps them locked until its own commit or rollback
AppendUpdateApply(p) ==
    /\ loc[p].pc = "a_update_wait"
    /\ \A q \in Procs \ {p} : loc[q].txFlip \cap loc[p].scan = {}
    /\ Continue(p, [loc[p] EXCEPT !.pc = "a_insert", !.txFlip = loc[p].scan])
    /\ UNCHANGED <<templates, versions, cluster, now, leaked, ncalls>>

\* INSERT INTO workflow_template_versions ..., is_latest true, run with tx
AppendInsertVersion(p, ok) ==
    /\ loc[p].pc = "a_insert"
    /\ LET l == Called(loc[p], "db.InsertVersion", ok)
       IN IF ok
          THEN Continue(p, [l EXCEPT !.pc = "a_commit",
                  !.txV = {NewVersionRow(FreshVid, l.ID, l.versionUnix, l.manifest)}])
          ELSE Return(p, AppendErr(l, "db.InsertVersion"))
    /\ UNCHANGED <<templates, versions, cluster, now, leaked, ncalls>>

\* what a failed tx.Commit() leads to: the error is returned at once
CommitFailedGoesOn(p, l) == Continue(p, [l EXCEPT !.pc = "a_get_latest"])

CommitFailed(p, l) == Return(p, AppendErr(l, "db.Commit"))

\* tx.Commit(), before any call to the cluster store
AppendCommit(p, ok) ==
    /\ loc[p].pc = "a_commit"
    /\ LET l == Called(loc[p], "db.Commit", ok)
       IN IF ok
          THEN /\ versions' = VersionsAfterCommit(l)
               /\ Continue(p, [l EXCEPT !.pc = "a_get_latest", !.txV = {},
                                        !.txFlip = {}, !.scan = {}])
          ELSE /\ CommitFailed(p, l)
               /\ UNCHANGED versions
    /\ UNCHANGED <<templates, cluster, now, leaked, ncalls>>

\* latest, err := c.getArgoWorkflowTemplate(namespace, UID, "latest")
AppendGetLatest(p, ok) ==
    /\ loc[p].pc = "a_get_latest"
    /\ LET r == getArgoWorkflowTemplate(loc[p].namespace, loc[p].uid, LatestStr, ok)
           l == Called(loc[p], "argo.List", ok)
       IN IF r.err = ""
          THEN Continue(p, [l EXCEPT !.pc = "a_argo_update", !.latest = r.obj])
          ELSE Return(p, AppendErr(l, r.err))
    /\ UNCHANGED <<templates, versions, cluster, now, leaked, ncalls>>

\* delete(latest.Labels, label.VersionLatest)
DemoteKeepsLabel(o) == o

Demote(o) == [o EXCEPT !.latest = FALSE]

\* WorkflowTemplates(namespace).Update(latest): the object must still exist
\* with the resource version that was read
AppendArgoUpdate(p, ok) ==
    /\ loc[p].pc = "a_argo_update"
    /\ LET updated == ok /\ loc[p].latest \in cluster
           l == Called(loc[p], "argo.Update", updated)
       IN IF updated
          THEN /\ cluster' = (cluster \ {l.latest})
                              \cup {[Demote(l.latest) EXCEPT !.rv = @ + 1]}
               /\ Continue(p, [l EXCEPT !.pc = "a_argo_create"])
          ELSE /\ Return(p, AppendErr(l, "argo.Update"))
               /\ UNCHANGED cluster
    /\ UNCHANGED <<templates, versions, now, leaked, ncalls>>

\* createArgoWorkflowTemplate for the new version, GetParametersKeyString for
\* its annotations, then WorkflowTemplates(namespace).Create; the template
\* handed back is the argument, its Version field as the caller set it
AppendArgoCreate(p, outcome) ==
    /\ loc[p].pc = "a_argo_create"
    /\ LET o == createArgoWorkflowTemplate(loc[p].name, loc[p].uid,
                                          loc[p].versionUnix)
           created == outcome = "ok" /\ NameFree(loc[p].namespace, o.name)
           l == Called(loc[p], "argo.Create", created)
       IN IF outcome = "parametersErr"
          THEN /\ Return(p, AppendErr(loc[p], "GetParametersKeyString"))
               /\ UNCHANGED cluster
          ELSE IF created
          THEN /\ cluster' = ClusterCreated(l.namespace, o)
               /\ Return(p, Result(l, "ok", "", ""))
          ELSE /\ Return(p, AppendErr(l, "argo.Create"))
               /\ UNCHANGED cluster
    /\ UNCHANGED <<templates, versions, now, leaked, ncalls>>

\* ------------------------------------------------------------------ reads
\* the rows of workflow_templates joined with workflow_template_versions that
\* the query of getWorkflowTemplate selects: namespace, uid, and is_latest for
\* version 0 or the version number otherwise
SelectedRows(ns, uid, version) ==
    {tv \in templates \X versions :
        /\ tv[1].namespace = ns
        /\ tv[1].uid = uid
        /\ tv[2].workflow_template_id = tv[1].id
        /\ IF version = 0 THEN tv[2].is_latest ELSE tv[2].version = version}

\* the WorkflowTemplate struct filled from one row, and the struct left as
\* allocated when c.DB.Get fails with an error other than sql.ErrNoRows
FromRow(tv) ==
    [ID |-> tv[1].id, uid |-> tv[1].uid, name |-> tv[1].name,
     is_archived |-> tv[1].is_archived, manifest |-> tv[2].manifest]

ZeroTemplate ==
    [ID |-> 0, uid |-> 0, name |-> <<>>, is_archived |-> FALSE, manifest |-> ""]

\* getWorkflowTemplate: every outcome it can have on the stores as they are.
\*  - sql.ErrNoRows gives (nil, nil);
\*  - c.DB.Get takes the first row of the result;
\*  - any other error of c.DB.Get is not returned: the function goes on to the
\*    cluster store with the empty struct, and the assignment of
\*    getArgoWorkflowTemplate's error replaces the database error;
\*  - the version is parsed from the version label of the cluster object.
getWorkflowTemplate(ns, uid, version, dbOk, listOk) ==
    LET rows == SelectedRows(ns, uid, version)
        structs == IF dbOk THEN {FromRow(tv) : tv \in rows} ELSE {ZeroTemplate}
        a == getArgoWorkflowTemplate(ns, uid,
                 IF version = 0 THEN LatestStr ELSE FormatInt(version), listOk)
        parsed == ParseInt(a.obj.version)
    IN IF structs = {} THEN {[err |-> "", found |-> FALSE, wt |-> ZeroTemplate,
                              version |-> 0]}
       ELSE IF a.err # "" THEN {[err |-> a.err, found |-> FALSE,
                                 wt |-> ZeroTemplate, version |-> 0]}
       ELSE IF ~parsed.ok THEN {[err |-> "strconv.ParseInt", found |-> FALSE,
                                 wt |-> ZeroTemplate, version |-> 0]}
       ELSE {[err |-> "", found |-> TRUE, wt |-> w, version |-> parsed.val] :
                w \in structs}

\* the error kind GetWorkflowTemplate gives for a failed getWorkflowTemplate:
\* codes.Unknown for every error, codes.NotFound for (nil, nil)
GetErrorKind(g) == IF g.err # "" THEN "Unknown" ELSE "NotFound"

\* GetWorkflowTemplate(namespace, uid, version); version 0 asks for the latest
GetWorkflowTemplate(p, ns, uid, version, dbOk, listOk) ==
    /\ loc[p].pc = "idle"
    /\ ret.op \notin ReadOps
    /\ LET r == [NoRet EXCEPT !.op = "Get", !.namespace = ns, !.uid = uid,
                                !.asked = version, !.faults = <<dbOk, listOk>>]
       IN \E g \in getWorkflowTemplate(ns, uid, version, dbOk, listOk) :
            ret' = IF g.found
                   THEN [r EXCEPT !.status = "ok", !.ID = g.wt.ID,
                                  !.name = g.wt.name, !.version = g.version,
                                  !.manifest = g.wt.manifest]
                   ELSE [r EXCEPT !.status = "err", !.kind = GetErrorKind(g),
                                  !.cause = g.err]
    /\ UNCHANGED <<templates, versions, cluster, now, leaked, ncalls, loc>>

\* listArgoWorkflowTemplates: every object labelled with the identity
listArgoWorkflowTemplates(ns, uid) ==
    {o \in cluster : o.namespace = ns /\ o.uid = uid}

\* listDbWorkflowTemplateVersions: the builder returned by sb.Where(...) is
\* dropped, so the statement that runs selects the version rows of every
\* template of the namespace
listDbWorkflowTemplateVersions(ns, uid) ==
    {v \in versions :
        \E t \in templates : t.namespace = ns /\ v.workflow_template_id = t.id}

\* ListWorkflowTemplateVersions(namespace, uid).  mapByVersion keeps, for each
\* version number, the row the loop saw last; the statement has no ORDER BY,
\* so that is any row with the version number.  A version label without a
\* row leaves dbVersion nil, and dbVersion.Manifest panics.
ListWorkflowTemplateVersions(p, ns, uid, dbOk, listOk, dbOk2, listOk2) ==
    /\ loc[p].pc = "idle"
    /\ ret.op \notin ReadOps
    /\ LET r == [NoRet EXCEPT !.op = "List", !.namespace = ns, !.uid = uid,
                                !.faults = <<dbOk, listOk, dbOk2, listOk2>>]
           fails(cause) == ret' = [r EXCEPT !.status = "err", !.kind = "NotFound",
                                            !.cause = cause]
           objs == listArgoWorkflowTemplates(ns, uid)
           rows == listDbWorkflowTemplateVersions(ns, uid)
           wanted == {ParseInt(o.version).val : o \in objs}
       IN \E g \in getWorkflowTemplate(ns, uid, 0, dbOk, listOk) :
            IF ~g.found THEN fails(IF g.err # "" THEN g.err ELSE "sql.ErrNoRows")
            ELSE IF ~listOk2 THEN fails("argo.List")
            ELSE IF ~dbOk2 THEN fails("db.Select")
            ELSE IF \E o \in objs : ~ParseInt(o.version).ok
                 THEN fails("strconv.ParseInt")
            ELSE IF \E n \in wanted : \A v \in rows : v.version # n
                 THEN ret' = [r EXCEPT !.status = "panic",
                                       !.cause = "nil pointer dereference"]
            ELSE \E mapByVersion \in [wanted -> rows] :
                   /\ \A n \in wanted : mapByVersion[n].version = n
                   /\ ret' = [r EXCEPT !.status = "ok", !.ID = g.wt.ID,
                         !.list = {[obj |-> o.name,
                                    ID |-> g.wt.ID,
                                    version |-> ParseInt(o.version).val,
                                    manifest |->
                                       mapByVersion[ParseInt(o.version).val].manifest,
                                    is_latest |-> o.latest] : o \in objs}]
    /\ UNCHANGED <<templates, versions, cluster, now, leaked, ncalls, loc>>

\* ---------------------------------------------------------------- Archive
\* the rows an UPDATE without the uid condition would reach
archiveEveryTemplateOf(ns, uid) ==
    {IF t.namespace = ns THEN [t EXCEPT !.is_archived = TRUE] ELSE t :
        t \in templates}

\* archiveWorkflowTemplate: UPDATE workflow_templates SET is_archived = true
\* WHERE uid = ... AND namespace = ...
archiveWorkflowTemplate(ns, uid) ==
    {IF t.namespace = ns /\ t.uid = uid THEN [t EXCEPT !.is_archived = TRUE] ELSE t :
        t \in templates}

\* the store calls ArchiveWorkflowTemplate makes, with their outcomes:
\* c.DB.Get of getWorkflowTemplate, the List of getArgoWorkflowTemplate when
\* c.DB.Get left a struct, c.DB.Exec when getWorkflowTemplate found a template
ArchiveCalls(ns, uid, g, dbOk, execOk) ==
    LET rows == SelectedRows(ns, uid, 0)
    IN <<<<"db.Get", dbOk /\ rows # {}>>>>
       \o (IF dbOk /\ rows = {} THEN <<>>
           ELSE <<<<"argo.List", g.err \notin {"argo.List", "not found",
                                              "not unique result"}>>>>)
       \o (IF g.found THEN <<<<"db.Exec", execOk>>>> ELSE <<>>)

\* ArchiveWorkflowTemplate(namespace, uid): getWorkflowTemplate for the latest
\* version first, then the UPDATE; every error but the missing template is
\* given as codes.Unknown
ArchiveWorkflowTemplate(p, ns, uid, dbOk, listOk, execOk) ==
    /\ Begin(p)
    /\ \E g \in getWorkflowTemplate(ns, uid, 0, dbOk, listOk) :
         LET calls == ArchiveCalls(ns, uid, g, dbOk, execOk)
             l == [Args("Archive", ns, uid, <<>>, "") EXCEPT !.log = calls]
             r(status, kind, cause) ==
                 [Result(l, status, kind, cause) EXCEPT
                     !.faults = <<dbOk, listOk \/ Len(calls) < 2,
                                  execOk \/ ~g.found>>]
         IN IF g.err # ""
            THEN /\ Return(p, r("err", "Unknown", g.err))
                 /\ UNCHANGED templates
            ELSE IF ~g.found
            THEN /\ Return(p, r("err", "NotFound", ""))
                 /\ UNCHANGED templates
            ELSE IF ~execOk
            THEN /\ Return(p, r("err", "Unknown", "db.Exec"))
                 /\ UNCHANGED templates
            ELSE /\ Return(p, r("ok", "", ""))
                 /\ templates' = archiveWorkflowTemplate(ns, uid)
    /\ UNCHANGED <<versions, cluster, now, leaked>>

\* ------------------------------------------------------------------- Next
\* the identities callers ask for: every one a row or an object carries, and
\* one that none carries
KnownUids == {t.uid : t \in templates} \cup {o.uid : o \in cluster} \cup {0}

\* the versions callers ask for: 0 for the latest, or a version number
AskedVersions == {0} \cup (StartClock..MaxClock)

\* the store calls of a read that fail, <<database ok, cluster ok>>: at most
\* one of the two calls of getWorkflowTemplate, and at most one of the two
\* list calls of ListWorkflowTemplateVersions
StoreFailures == {<<TRUE, TRUE>>, <<FALSE, TRUE>>, <<TRUE, FALSE>>}

\* the steps of request p that write, with arguments from the given sets
Writes(p, NS, NM, MF) ==
    \/ \E ns \in CreateNamespaces, name \in NM, m \in MF, valid \in BOOLEAN :
          CreateWorkflowTemplate(p, ns, name, m, valid)
    \/ \E ok \in BOOLEAN : GenerateUID(p, ok)
    \/ \E ok \in BOOLEAN : CreateBegin(p, ok)
    \/ \E ok \in BOOLEAN : CreateInsertTemplate(p, ok)
    \/ \E ok \in BOOLEAN : CreateInsertVersion(p, ok)
    \/ \E ok \in BOOLEAN : CreateArgoCreate(p, ok)
    \/ \E ok \in BOOLEAN : CreateCommit(p, ok)
    \/ \E ok \in BOOLEAN : CreateDelete(p, ok)
    \/ \E ns \in NS, uid \in KnownUids, name \in NM, m \in MF, valid \in BOOLEAN :
          CreateWorkflowTemplateVersion(p, ns, uid, name, m, valid)
    \/ \E ok \in BOOLEAN : AppendBegin(p, ok)
    \/ \E ok \in BOOLEAN : AppendLookup(p, ok)
    \/ \E ok \in BOOLEAN : AppendUpdateScan(p, ok)
    \/ AppendUpdateApply(p)
    \/ \E ok \in BOOLEAN : AppendInsertVersion(p, ok)
    \/ \E ok \in BOOLEAN : AppendCommit(p, ok)
    \/ \E ok \in BOOLEAN : AppendGetLatest(p, ok)
    \/ \E ok \in BOOLEAN : AppendArgoUpdate(p, ok)
    \/ \E outcome \in {"ok", "parametersErr", "createErr"} :
          AppendArgoCreate(p, outcome)
    \/ \E ns \in NS, uid \in KnownUids, dbOk, listOk, execOk \in BOOLEAN :
          ArchiveWorkflowTemplate(p, ns, uid, dbOk, listOk, execOk)

\* the reads of request p
Reads(p) ==
    \/ \E ns \in Namespaces, uid \in KnownUids, version \in AskedVersions,
          f \in StoreFailures :
          GetWorkflowTemplate(p, ns, uid, version, f[1], f[2])
    \/ \E ns \in Namespaces, uid \in KnownUids, f \in StoreFailures,
          f2 \in StoreFailures :
          ListWorkflowTemplateVersions(p, ns, uid, f[1], f[2], f2[1], f2[2])

\* one request at a time
NextSeq == Tick \/ Writes("p1", Namespaces, Names, Manifests) \/ Reads("p1")

\* the arguments of overlapping requests: whether two transactions collide
\* depends on the template they address, not on its name or manifest
ConcNames == {<<"T", "1">>}
ConcManifests == {"M1"}

\* requests overlap: the steps of the two requests interleave.  The two
\* requests are alike, so the second one is taken to begin while the first
\* is under way.
NextConc ==
    \/ Tick
    \/ Writes("p1", CreateNamespaces, ConcNames, ConcManifests)
    \/ /\ loc["p1"].pc # "idle" \/ loc["p2"].pc # "idle"
       /\ Writes("p2", CreateNamespaces, ConcNames, ConcManifests)

Spec == Init /\ [][NextSeq]_vars

SpecConc == Init /\ [][NextConc]_vars

\* ----------------------------------------------------------------- claims
\* the version rows of template tid that are marked is_latest, among rows
LatestRows(rows, tid) == {v \in rows : v.workflow_template_id = tid /\ v.is_latest}

\* C1: when Create fails at the creation of the cluster object, the call
\* returns an error, the relational store and the cluster store are as they
\* were before the call, and neither a template row, nor a version row, nor a
\* cluster object of that call exists.
C1_ClusterCreateFailureLeavesNoTrace ==
    (ret.op = "Create" /\ <<"argo.Create", FALSE>> \in Calls(ret))
        => /\ ret.status = "err"
           /\ templates = ret.pre.templates
           /\ versions = ret.pre.versions
           /\ cluster = ret.pre.cluster
           /\ \A t \in templates : t.id # ret.ID /\ t.uid # ret.uid
           /\ \A v \in versions : v.workflow_template_id # ret.ID
           /\ \A o \in cluster : o.uid # ret.uid

\* a Create that had inserted both rows in its transaction failed at the
\* cluster store, with an earlier template in the stores
C1_Witness ==
    /\ ret.op = "Create"
    /\ <<"db.InsertVersion", TRUE>> \in Calls(ret)
    /\ <<"argo.Create", FALSE>> \in Calls(ret)
    /\ ret.pre.templates # {}
    /\ ret.pre.cluster # {}

\* C2: after a successful Create the version number returned is the version
\* number of the committed is-latest row of the new template, that row and the
\* template row are new, and exactly one cluster object carries the new
\* identity.
C2_CreateReturnsCommittedVersion ==
    (ret.op = "Create" /\ ret.status = "ok")
        => LET rows == {v \in versions : v.workflow_template_id = ret.ID}
               objs == {o \in cluster : o.uid = ret.uid}
           IN /\ Cardinality(LatestRows(versions, ret.ID)) = 1
              /\ \A v \in LatestRows(versions, ret.ID) : v.version = ret.version
              /\ rows \cap ret.pre.versions = {}
              /\ \E t \in templates \ ret.pre.templates :
                    t.id = ret.ID /\ t.uid = ret.uid /\ t.namespace = ret.namespace
              /\ Cardinality(objs) = 1
              /\ \A o \in objs : o.namespace = ret.namespace /\ o \notin ret.pre.cluster

\* a Create succeeded after the clock moved on since it read it, in stores
\* that held a template already
C2_Witness ==
    /\ ret.op = "Create"
    /\ ret.status = "ok"
    /\ ret.pre.templates # {}
    /\ now > ret.version

\* C3: when the commit of Create fails after the cluster object was created,
\* the delete of that object is issued exactly once, the error returned is the
\* commit error whether or not the delete succeeds, no row of the call is
\* committed, and after a successful delete no cluster object of the call is
\* left.
C3_CommitFailureCompensates ==
    (ret.op = "Create" /\ <<"db.Commit", FALSE>> \in Calls(ret))
        => /\ Cardinality({i \in DOMAIN ret.log : ret.log[i][1] = "argo.Delete"}) = 1
           /\ ret.status = "err"
           /\ ret.cause = "db.Commit"
           /\ templates = ret.pre.templates
           /\ versions = ret.pre.versions
           /\ <<"argo.Delete", TRUE>> \in Calls(ret)
                 => /\ cluster = ret.pre.cluster
                    /\ \A o \in cluster : o.uid # ret.uid

\* the commit of a Create failed and the compensating delete failed too
C3_Witness ==
    /\ ret.op = "Create"
    /\ <<"argo.Create", TRUE>> \in Calls(ret)
    /\ <<"db.Commit", FALSE>> \in Calls(ret)
    /\ <<"argo.Delete", FALSE>> \in Calls(ret)
    /\ \E o \in cluster : o.uid = ret.uid

\* C4: when an Append on a template that existed when the call began returns
\* success, exactly one version row of the template was marked is_latest
\* when the call began, exactly one is marked when it returns, and that one
\* is the row the call inserted.
C4_AppendMovesLatestRow ==
    [][(/\ ret' # ret /\ ret'.op = "Append" /\ ret'.status = "ok"
        /\ \E t \in ret'.pre.templates : t.id = ret'.ID)
          => LET before == LatestRows(ret'.pre.versions, ret'.ID)
                 after == LatestRows(versions', ret'.ID)
             IN /\ Cardinality(before) = 1
                /\ Cardinality(after) = 1
                /\ \A b \in before, a \in after : a.id # b.id
                /\ \A a \in after : /\ a.manifest = ret'.manifest
                                    /\ \A v \in ret'.pre.versions : v.id # a.id]_vars

\* C5: in every committed state each template has exactly one version row
\* marked is_latest, overlapping Appends on one template included.
C5_OneLatestRowPerTemplate ==
    \A t \in templates : Cardinality(LatestRows(versions, t.id)) = 1


\* what C6 says of the stores right after a successful Append
AppendedLatest ==
    (ret.op = "Append" /\ ret.status = "ok")
        => \E row \in LatestRows(versions, ret.ID) :
              /\ row \notin ret.pre.versions
              /\ row.manifest = ret.manifest
              /\ \A o \in ret.pre.cluster :
                    (o.namespace = ret.namespace /\ o.uid = ret.uid /\ o.latest)
                        => \E d \in cluster : /\ d.namespace = o.namespace
                                              /\ d.name = o.name
                                              /\ ~d.latest
              /\ \E n \in cluster \ ret.pre.cluster :
                    /\ n.namespace = ret.namespace
                    /\ n.uid = ret.uid
                    /\ n.name = Slug(ret.name) \o <<"-", "v">> \o FormatInt(row.version)
                    /\ n.latest
                    /\ \A o \in cluster :
                          (o.namespace = n.namespace /\ o.uid = n.uid /\ o.latest)
                              => o = n

\* what C6 says of the Get that follows a successful Append
GetAfterAppend ==
    (/\ ret.op = "Append" /\ ret.status = "ok"
     /\ ret'.op = "Get" /\ ret'.namespace = ret.namespace /\ ret'.uid = ret.uid
     /\ ret'.asked = 0 /\ ret'.faults = <<TRUE, TRUE>>)
        => /\ ret'.status = "ok"
           /\ ret'.manifest = ret.manifest
           /\ \E row \in LatestRows(versions, ret.ID) :
                 row \notin ret.pre.versions /\ ret'.version = row.version

\* C6: after a successful Create with M1 and a successful Append with M2 on
\* the same identity, the cluster object of the first version has lost the
\* latest marker, a new object named <slug>-v<V2> exists and carries it, and
\* Get(namespace, identity, 0) returns manifest M2 with version V2.
C6_AppendMovesLatestObject == [][AppendedLatest' /\ GetAfterAppend]_vars

\* an Append with M2 succeeded on a template whose only version, made by
\* Create with M1, is older
C6_Witness ==
    /\ ret.op = "Append"
    /\ ret.status = "ok"
    /\ ret.manifest = "M2"
    /\ \E v \in ret.pre.versions :
          /\ v.workflow_template_id = ret.ID
          /\ v.manifest = "M1"
          /\ v.version < now
          /\ \A w \in ret.pre.versions : w.workflow_template_id = ret.ID => w = v

\* C7: a Get for version 0 that returns a template returns the manifest of
\* the row marked is_latest and the version of the object that carries the
\* latest marker, and the two are one version; a Get for version v returns
\* version v and the manifest of the row with version v.  This is so in every
\* state Create and Append calls leave behind, failed calls included.
C7_GetReturnsOneVersion ==
    (ret.op = "Get" /\ ret.status = "ok" /\ ret.faults = <<TRUE, TRUE>>)
        => /\ \E tv \in SelectedRows(ret.namespace, ret.uid, ret.asked) :
                 /\ tv[2].manifest = ret.manifest
                 /\ tv[2].version = ret.version
           /\ ret.asked # 0 => ret.version = ret.asked
           /\ ret.asked = 0 =>
                 \E o \in Selected(ret.namespace, ret.uid, LatestStr) :
                     ParseInt(o.version).val = ret.version

\* C8: Get gives NotFound when no row matches, NotFound when a row matches
\* and the selector matches no cluster object, InvariantViolation when the
\* selector matches more than one; no template is returned in these cases.
C8_GetErrorKinds ==
    (ret.op = "Get" /\ ret.faults = <<TRUE, TRUE>>)
        => LET rows == SelectedRows(ret.namespace, ret.uid, ret.asked)
               objs == Selected(ret.namespace, ret.uid,
                          IF ret.asked = 0 THEN LatestStr ELSE FormatInt(ret.asked))
           IN /\ rows = {} => ret.status = "err" /\ ret.kind = "NotFound"
              /\ (rows # {} /\ objs = {})
                    => ret.status = "err" /\ ret.kind = "NotFound"
              /\ (rows # {} /\ Cardinality(objs) > 1)
                    => ret.status = "err" /\ ret.kind = "InvariantViolation"
              /\ ret.status = "err" => ret.manifest = ""

\* C9: a successful List returns as many entries as there are cluster objects
\* labelled with the identity, and the manifest of each entry is the manifest
\* of the version row of that same template with the entry's version number,
\* also when other templates of the namespace have rows with that number.
C9_ListEntriesMatchRows ==
    (ret.op = "List" /\ ret.status = "ok"
     /\ ret.faults = <<TRUE, TRUE, TRUE, TRUE>>)
        => /\ Cardinality(ret.list)
                = Cardinality(listArgoWorkflowTemplates(ret.namespace, ret.uid))
           /\ \A e \in ret.list :
                 \E v \in versions : /\ v.workflow_template_id = ret.ID
                                     /\ v.version = e.version
                                     /\ v.manifest = e.manifest

\* C10: when a cluster object of the identity carries a version number that
\* no version row of the identity's template has, List fails as a whole: the
\* caller gets an error and no list.
C10_ListFailsOnVersionWithoutRow ==
    (/\ ret.op = "List"
     /\ \E o \in listArgoWorkflowTemplates(ret.namespace, ret.uid) :
           \A tv \in templates \X versions :
              ~(/\ tv[1].namespace = ret.namespace
                /\ tv[1].uid = ret.uid
                /\ tv[2].workflow_template_id = tv[1].id
                /\ tv[2].version = ParseInt(o.version).val))
        => ret.status = "err" /\ ret.list = {}


\* an Archive call has just returned, no store call of it having failed
ArchiveReturned ==
    /\ ncalls' # ncalls
    /\ ret'.op = "Archive"
    /\ ret'.faults = <<TRUE, TRUE, TRUE>>

\* the template rows of namespace ns with identity uid, among rows
TemplateRows(rows, ns, uid) == {t \in rows : t.namespace = ns /\ t.uid = uid}

\* C11: Archive on an identity without a template row in the namespace gives
\* NotFound and changes nothing; Archive on an existing template returns
\* true; Archive on the template archived by the call before returns true
\* again and leaves the stores as that call left them.
C11_ArchiveIdempotent ==
    [][ArchiveReturned
          => LET had == TemplateRows(ret'.pre.templates, ret'.namespace, ret'.uid)
             IN /\ had = {} => /\ ret'.status = "err"
                               /\ ret'.kind = "NotFound"
                               /\ Stores' = ret'.pre
                /\ had # {} => ret'.status = "ok"
                /\ (/\ had # {}
                    /\ ret.op = "Archive" /\ ret.status = "ok"
                    /\ ret'.namespace = ret.namespace /\ ret'.uid = ret.uid)
                      => ret'.status = "ok" /\ Stores' = Stores]_vars

\* C12: an Archive call, successful or failed, changes nothing but the
\* archived flag of the template row it addresses: version rows, the rows of
\* other templates and the cluster objects stay as they were.
C12_ArchiveFrame ==
    ret.op = "Archive"
        => /\ versions = ret.pre.versions
           /\ cluster = ret.pre.cluster
           /\ Cardinality(templates) = Cardinality(ret.pre.templates)
           /\ \A t \in templates :
                 \/ t \in ret.pre.templates
                 \/ /\ t.namespace = ret.namespace
                    /\ t.uid = ret.uid
                    /\ [t EXCEPT !.is_archived = FALSE] \in ret.pre.templates

\* an Archive succeeded in a namespace that holds another template too, and
\* set the flag of the one it addressed
C12_Witness ==
    /\ ret.op = "Archive"
    /\ ret.status = "ok"
    /\ templates # ret.pre.templates
    /\ \E t \in templates : t.namespace = ret.namespace /\ t.uid # ret.uid

\* C13: Archive makes no call to the cluster store; for a template whose row
\* and latest version row exist it succeeds whatever the cluster store holds
\* and whether or not the cluster store answers.
C13_ArchiveIgnoresCluster ==
    (/\ ret.op = "Archive"
     /\ \E t \in TemplateRows(ret.pre.templates, ret.namespace, ret.uid) :
           LatestRows(ret.pre.versions, t.id) # {}
     /\ ret.faults[1] /\ ret.faults[3])
        => /\ \A i \in DOMAIN ret.log : ret.log[i][1] # "argo.List"
           /\ ret.status = "ok"


\* the cluster objects of the identity that carry the latest marker
LatestObjects(ns, uid) == Selected(ns, uid, LatestStr)

\* C14: an Append retried after an attempt that failed at the fetch or the
\* demotion of the latest-marked object, or at the creation of the new one,
\* returns success when none of its store calls fails, and leaves exactly one
\* is_latest row and exactly one latest-marked object, of one version.
C14_RetriedAppendSucceeds ==
    (/\ ret.op = "Append"
     /\ ret.retry
     /\ ret.cause \notin {"validate", "GetParametersKeyString"}
     /\ \A c \in Calls(ret) : c[2])
        => /\ ret.status = "ok"
           /\ Cardinality(LatestRows(versions, ret.ID)) = 1
           /\ Cardinality(LatestObjects(ret.namespace, ret.uid)) = 1
           /\ \A v \in LatestRows(versions, ret.ID) :
                 \A o \in LatestObjects(ret.namespace, ret.uid) :
                     ParseInt(o.version).val = v.version


\* C15: an Append for an identity without a template row in the namespace
\* fails with NotFound, changes no row and creates or updates no object.
C15_AppendUnknownIdentity ==
    (/\ ret.op = "Append"
     /\ TemplateRows(ret.pre.templates, ret.namespace, ret.uid) = {}
     /\ ret.cause \notin {"validate", "db.Begin", "db.GetTemplate"})
        => /\ ret.status = "err"
           /\ ret.kind = "NotFound"
           /\ Stores = ret.pre

\* no request is under way
Idle == \A p \in Procs : loc[p].pc = "idle"

\* C16: whenever no operation is in progress, every committed version row of
\* every template has a cluster object with the template's identity and the
\* row's version number, also after calls that returned an error.
C16_EveryRowHasObject ==
    Idle => \A t \in templates : \A v \in versions :
               v.workflow_template_id = t.id
                  => \E o \in cluster : /\ o.namespace = t.namespace
                                        /\ o.uid = t.uid
                                        /\ ParseInt(o.version).val = v.version

\* C17: the version numbers of the rows of one template are pairwise
\* distinct, and a row inserted later has a greater number than every row
\* inserted before it (row ids grow in the order of insertion).
C17_VersionsDistinctAndGrowing ==
    \A v, w \in versions :
        (v.workflow_template_id = w.workflow_template_id /\ v.id < w.id)
            => v.version < w.version


\* the position of the first entry of log for call, or 0
FirstCall(log, call) ==
    IF \E i \in DOMAIN log : log[i][1] = call
    THEN CHOOSE i \in DOMAIN log :
            log[i][1] = call /\ \A j \in 1..(i - 1) : log[j][1] # call
    ELSE 0

ClusterCalls == {"argo.List", "argo.Update", "argo.Create", "argo.Delete"}

\* the calls made so far by the requests under way and by the call that
\* returned last
Histories ==
    {[op |-> loc[p].op, log |-> loc[p].log] : p \in Procs}
        \cup {[op |-> ret.op, log |-> ret.log]}

\* C18: in Create the cluster create is called while the transaction is
\* uncommitted and the commit is called only after that call succeeded; in
\* Append the commit comes before every cluster call, and after a failed
\* commit no cluster call is made.
C18_WriteOrder ==
    /\ \A h \in Histories :
          h.op = "Create"
             => /\ FirstCall(h.log, "db.Commit") # 0
                   => /\ FirstCall(h.log, "argo.Create") # 0
                      /\ FirstCall(h.log, "argo.Create") < FirstCall(h.log, "db.Commit")
                      /\ h.log[FirstCall(h.log, "argo.Create")][2]
    /\ \A h \in Histories :
          h.op = "Append"
             => \A i \in DOMAIN h.log :
                   h.log[i][1] \in ClusterCalls
                      => \E j \in 1..(i - 1) : h.log[j] = <<"db.Commit", TRUE>>
    /\ \A p \in Procs :
          loc[p].pc = "c_commit"
             => /\ loc[p].txT # {} /\ loc[p].txV # {}
                /\ loc[p].txT \cap templates = {}
                /\ loc[p].txV \cap versions = {}
                /\ \E o \in cluster : o.uid = loc[p].uid

\* a Create has made its cluster object and not yet committed, in stores
\* where an Append went through its commit and its cluster calls before
C18_Witness ==
    /\ loc["p1"].pc = "c_commit"
    /\ \E v \in versions : ~v.is_latest
    /\ \E o \in cluster : ~o.latest


\* no committed version row has the identity and the version number of o
Unbacked(o) ==
    \A t \in templates : \A v \in versions :
        ~(/\ t.namespace = o.namespace
          /\ t.uid = o.uid
          /\ v.workflow_template_id = t.id
          /\ v.version = ParseInt(o.version).val)

\* C19: whenever no operation is in progress, a cluster object without a
\* committed version row of its identity and version number is an object
\* whose Create failed to commit and then failed to delete it; no other
\* sequence of calls, whatever store calls fail, leaves such an object.
C19_OrphansComeFromFailedDelete ==
    Idle => \A o \in cluster : Unbacked(o) => o \in leaked

\* an object without rows is left, next to a template that has its rows
C19_Witness ==
    /\ Idle
    /\ templates # {}
    /\ \E o \in cluster : Unbacked(o)

\* C20: with one request at a time, each of which may fail at any store
\* call, at most one cluster object of an identity carries the latest marker
\* in every state.
C20_AtMostOneLatestObject ==
    \A ns \in Namespaces : \A uid \in KnownUids :
        Cardinality(LatestObjects(ns, uid)) <= 1

\* an Append has created the new latest-marked object next to the demoted one
C20_Witness ==
    /\ ret.op = "Append"
    /\ ret.status = "ok"
    /\ Cardinality(LatestObjects(ret.namespace, ret.uid)) = 1
    /\ \E o \in cluster : o.namespace = ret.namespace /\ o.uid = ret.uid /\ ~o.latest

====
